---- MODULE Spec2Model ----
(***************************************************************************)
(* A model of miniamf/_accel/codec.pyx: the reference tables               *)
(* (IndexedCollection, ByteStringReferenceCollection), the Context built   *)
(* on them, the Decoder's element reader and iterator, and the Encoder's   *)
(* dispatch and iterator.                                                  *)
(*                                                                         *)
(* Objects are named by their address: two names are the same object iff   *)
(* they are equal.  Memory allocation is assumed to succeed.               *)
(***************************************************************************)
EXTENDS Integers, Sequences, FiniteSets, TLC

(***************************************************************************)
(* Bounds of the model.                                                    *)
(***************************************************************************)
\* the objects handed to the operations are 0..NObj
NObj == 3
\* a collection is either fresh or already holds PreFill other objects
PreFill == 62
\* the number of appends made on top of that
MaxApp == 4

\* the number of addObject calls in a run of the Context
MaxAdd == 2
\* the number of default aliases created in a run of the Context
MaxAlias == 2

\* the objects of an encoded graph are 1..NNode, each with up to MaxKids
\* children
NNode == 2
MaxKids == 2

\* a decoded array holds up to MaxItems elements
MaxItems == 2
\* the number of next() calls in a run of the Decoder
MaxNext == 2
\* the number of send and writeElement calls made on one Encoder
MaxEnc == 2

\* IndexedCollection.clear: self.size = 64
InitialSize == 64

(***************************************************************************)
(* The objects.  Object 0 is unhashable (a list, say); hash() of the       *)
(* others in Obj collides pairwise, as equal strings or plain collisions   *)
(* do; the objects of a pre-filled collection have hashes of their own.    *)
(***************************************************************************)
Obj == 0..NObj

Hashable(obj) == obj # 0

HashOf(obj) == IF obj <= NObj THEN (obj + 1) \div 2 ELSE obj

\* the objects a pre-filled collection holds: none of them is in Obj
Filler(i) == NObj + i

\* the result of a call: an int, an object, None, or a raised exception
RInt(n) == [k |-> "int", v |-> n]
RObj(o) == [k |-> "obj", v |-> o]
RNone == [k |-> "none", v |-> 0]
RRaise(e) == [k |-> e, v |-> 0]

(***************************************************************************)
(* IndexedCollection: [use_hash, data, refs, size, length, overrun].       *)
(* data is the malloc'ed array of size slots: the model keeps the slots    *)
(* written so far, a function on 0..n-1, and reads any other slot as       *)
(* Uninit; overrun records a store past the end of the array.  refs is the *)
(* dict.                                                                   *)
(***************************************************************************)
Uninit == [k |-> "uninit", v |-> 0]

\* the slot data[i]
Slot(c, i) == IF i \in DOMAIN c.data THEN c.data[i] ELSE Uninit

\* the store data[i] = v
Store(c, i, v) ==
    IF i < 0 \/ i >= c.size THEN [c EXCEPT !.overrun = TRUE]
    ELSE [c EXCEPT !.data = [j \in (DOMAIN c.data) \cup {i} |->
                                IF j = i THEN v ELSE c.data[j]]]

\* IndexedCollection._ref: the dict key of obj
IC_ref(c, obj) == IF c.use_hash THEN HashOf(obj) ELSE obj

\* hash(obj) raises TypeError for an unhashable obj
IC_ref_raises(c, obj) == c.use_hash /\ ~Hashable(obj)

\* IndexedCollection.clear (after _clear has freed the old array)
IC_clear_keeps_refs(c) ==
    [c EXCEPT !.length = 0, !.size = InitialSize, !.data = <<>>]

IC_clear(c) ==
    [c EXCEPT !.length = 0, !.size = InitialSize, !.data = <<>>, !.refs = <<>>]

\* IndexedCollection.__cinit__ and __init__(use_hash)
IC_init(use_hash) ==
    IC_clear([use_hash |-> use_hash, data |-> <<>>, refs |-> <<>>,
              size |-> -1, length |-> -1, overrun |-> FALSE])

\* the while loop of _actually_increase_size
RECURSIVE GrowSize(_, _)
GrowSize(new_len, current_size) ==
    IF new_len >= current_size THEN GrowSize(new_len, current_size * 2)
    ELSE current_size

\* IndexedCollection._actually_increase_size: realloc keeps the old slots
IC_actually_increase_size_malloc(c) ==
    IF GrowSize(c.length, c.size) # c.size
    THEN [c EXCEPT !.size = GrowSize(c.length, c.size), !.data = <<>>]
    ELSE c

IC_actually_increase_size(c) ==
    IF GrowSize(c.length, c.size) # c.size
    THEN [c EXCEPT !.size = GrowSize(c.length, c.size)]
    ELSE c

\* IndexedCollection._increase_size
IC_increase_size_late(c) ==
    IF c.length <= c.size THEN c ELSE IC_actually_increase_size(c)

IC_increase_size(c) ==
    IF c.length < c.size THEN c ELSE IC_actually_increase_size(c)

\* IndexedCollection.getByReference
IC_getByReference_from_one(c, ref) ==
    IF ref <= 0 \/ ref >= c.length THEN RNone ELSE Slot(c, ref)

IC_getByReference(c, ref) ==
    IF ref < 0 \/ ref >= c.length THEN RNone ELSE Slot(c, ref)

\* IndexedCollection.getReferenceTo; -1 on a miss
IC_getReferenceTo_always_miss(c, obj) == -1

IC_getReferenceTo(c, obj) ==
    IF IC_ref(c, obj) \in DOMAIN c.refs THEN c.refs[IC_ref(c, obj)] ELSE -1

\* the dict store d[h] = v
DictSet(d, h, v) == [x \in (DOMAIN d) \cup {h} |-> IF x = h THEN v ELSE d[x]]

\* the body of append once the array is large enough (g), returning index ret
AppendTo(g, obj, idx, ret) ==
    [c |-> [Store(g, g.length, RObj(obj)) EXCEPT
                !.refs = DictSet(g.refs, IC_ref(g, obj), idx),
                !.length = g.length + 1],
     ret |-> RInt(ret)]

\* IndexedCollection.append: [c |-> the collection after, ret |-> the result]
IC_append_off_by_one(c, obj) ==
    IF IC_ref_raises(c, obj)
    THEN [c |-> IC_increase_size(c), ret |-> RRaise("TypeError")]
    ELSE AppendTo(IC_increase_size(c), obj, c.length + 1, c.length + 1)

IC_append(c, obj) ==
    IF IC_ref_raises(c, obj)
    THEN [c |-> IC_increase_size(c), ret |-> RRaise("TypeError")]
    ELSE AppendTo(IC_increase_size(c), obj, c.length, c.length)

\* the collection after the n appends append(Filler(1)) .. append(Filler(n))
\* to a fresh one, written out
IC_filled(use_hash, n) ==
    [IC_init(use_hash) EXCEPT
        !.size = GrowSize(n - 1, InitialSize),
        !.length = n,
        !.data = [i \in 0..(n - 1) |-> RObj(Filler(i + 1))],
        !.refs = [h \in {IC_ref(IC_init(use_hash), Filler(i)) : i \in 1..n} |->
                    CHOOSE i \in 0..(n - 1) :
                       /\ IC_ref(IC_init(use_hash), Filler(i + 1)) = h
                       /\ \A j \in (i + 1)..(n - 1) :
                             IC_ref(IC_init(use_hash), Filler(j + 1)) # h]]

(***************************************************************************)
(* ByteStringReferenceCollection: an IndexedCollection whose _ref is the   *)
(* byte string itself, so that refs, a dict, finds a key by hash and then  *)
(* by ==.  The byte strings handed to it are the objects of Obj: objects   *)
(* 2k and 2k+1 are two equal strings, and the hashes of the unequal        *)
(* strings collide pairwise.                                               *)
(***************************************************************************)
\* the bytes of a byte string object
BytesValue(obj) == <<65 + (obj \div 2)>>

\* hash(s) of a byte string
BytesHash(s) == (s[1] - 65) \div 2

\* ByteStringReferenceCollection._ref: the dict key of obj.  Two keys of a
\* dict are the same key iff they are equal.
BS_ref_by_hash(obj) == BytesHash(BytesValue(obj))

BS_ref(obj) == BytesValue(obj)

\* IndexedCollection.getReferenceTo, with the subclass's _ref
BS_getReferenceTo(c, obj) ==
    IF BS_ref(obj) \in DOMAIN c.refs THEN c.refs[BS_ref(obj)] ELSE -1

\* IndexedCollection.append, with the subclass's _ref: [c, ret]
BS_append(c, obj) ==
    [c |-> [Store(IC_increase_size(c), c.length, RObj(obj)) EXCEPT
                !.refs = DictSet(c.refs, BS_ref(obj), c.length),
                !.length = c.length + 1],
     ret |-> RInt(c.length)]

(***************************************************************************)
(* Context: [objects, class_aliases, unicodes, strings (the field          *)
(* _strings), extra, forbid_entities, forbid_dtd].                         *)
(***************************************************************************)
IsEmpty(d) == DOMAIN d = {}

\* dict.get(h, None)
DictGet(d, h) == IF h \in DOMAIN d THEN d[h] ELSE RNone

\* Context.clear
Ctx_clear_keeps_objects(ctx) ==
    [ctx EXCEPT !.class_aliases = <<>>, !.unicodes = <<>>,
                !.strings = <<>>, !.extra = <<>>]

Ctx_clear_drops_flags(ctx) ==
    [ctx EXCEPT !.objects = IC_clear(ctx.objects),
                !.class_aliases = <<>>, !.unicodes = <<>>,
                !.strings = <<>>, !.extra = <<>>,
                !.forbid_entities = FALSE, !.forbid_dtd = FALSE]

Ctx_clear(ctx) ==
    [ctx EXCEPT !.objects = IC_clear(ctx.objects),
                !.class_aliases = <<>>, !.unicodes = <<>>,
                !.strings = <<>>, !.extra = <<>>]

\* Context.__cinit__ and __init__(forbid_dtd, forbid_entities)
Ctx_init(forbid_dtd, forbid_entities) ==
    [Ctx_clear([objects |-> IC_init(FALSE), class_aliases |-> <<>>,
                unicodes |-> <<>>, strings |-> <<>>, extra |-> <<>>,
                forbid_entities |-> TRUE, forbid_dtd |-> TRUE])
     EXCEPT !.forbid_entities = forbid_entities, !.forbid_dtd = forbid_dtd]

\* the value forbid_dtd and forbid_entities take when the caller gives none
ForbidDefault == TRUE

\* Codec.__init__(forbid_entities, forbid_dtd): the codec's context after
Codec_init(ctx, forbid_entities, forbid_dtd) ==
    [ctx EXCEPT !.forbid_entities = forbid_entities, !.forbid_dtd = forbid_dtd]

\* Context.getObject
Ctx_getObject(ctx, ref) == IC_getByReference(ctx.objects, ref)

\* Context.getObjectReference
Ctx_getObjectReference(ctx, obj) == IC_getReferenceTo(ctx.objects, obj)

\* Context.addObject: [c |-> the context after, ret |-> the result]
Ctx_addObject(ctx, obj) ==
    [c |-> [ctx EXCEPT !.objects = IC_append(ctx.objects, obj).c],
     ret |-> IC_append(ctx.objects, obj).ret]

\* The class-alias registry (miniamf.get_class_alias): the classes and alias
\* names a caller may pass, and whether an alias is registered for each.
KlassInputs == {"KReg", "KUnreg", "nameReg", "nameUnreg"}

IsString(klass) == klass \in {"nameReg", "nameUnreg"}

Registered(klass) == klass \in {"KReg", "nameReg"}

\* the registered alias: one object, owned by the registry
RegisteredAlias(klass) == [klass |-> "KReg", defer |-> FALSE, serial |-> 0]

\* alias(klass, defer=True, **meta): a new alias object, the serial-th made
DefaultAlias(klass, serial) == [klass |-> klass, defer |-> TRUE, serial |-> serial]

\* Context.getClassAlias: [c |-> the context after, ret |-> the result,
\* made |-> whether a new alias object was created]
Ctx_getClassAlias_no_cache(ctx, klass, serial) ==
    IF klass \in DOMAIN ctx.class_aliases
    THEN [c |-> ctx, ret |-> [k |-> "alias", v |-> ctx.class_aliases[klass]],
          made |-> FALSE]
    ELSE IF Registered(klass)
    THEN [c |-> ctx, ret |-> [k |-> "alias", v |-> RegisteredAlias(klass)],
          made |-> FALSE]
    ELSE IF IsString(klass)
    THEN [c |-> ctx, ret |-> RRaise("UnknownClassAlias"), made |-> FALSE]
    ELSE [c |-> ctx, ret |-> [k |-> "alias", v |-> DefaultAlias(klass, serial)],
          made |-> TRUE]

Ctx_getClassAlias(ctx, klass, serial) ==
    IF klass \in DOMAIN ctx.class_aliases
    THEN [c |-> ctx, ret |-> [k |-> "alias", v |-> ctx.class_aliases[klass]],
          made |-> FALSE]
    ELSE IF Registered(klass)
    THEN [c |-> [ctx EXCEPT !.class_aliases =
                    DictSet(ctx.class_aliases, klass, RegisteredAlias(klass))],
          ret |-> [k |-> "alias", v |-> RegisteredAlias(klass)],
          made |-> FALSE]
    ELSE IF IsString(klass)
    THEN [c |-> ctx, ret |-> RRaise("UnknownClassAlias"), made |-> FALSE]
    ELSE [c |-> [ctx EXCEPT !.class_aliases =
                    DictSet(ctx.class_aliases, klass, DefaultAlias(klass, serial))],
          ret |-> [k |-> "alias", v |-> DefaultAlias(klass, serial)],
          made |-> TRUE]

\* bytes.decode('utf-8') of one- and two-byte sequences: [ok, v]
RECURSIVE Utf8Decode(_)
Utf8Decode(s) ==
    IF s = <<>> THEN [ok |-> TRUE, v |-> <<>>]
    ELSE IF s[1] < 128
    THEN [ok |-> Utf8Decode(Tail(s)).ok,
          v |-> <<s[1]>> \o Utf8Decode(Tail(s)).v]
    ELSE IF s[1] \in 194..223 /\ Len(s) >= 2 /\ s[2] \in 128..191
    THEN [ok |-> Utf8Decode(Tail(Tail(s))).ok,
          v |-> <<(s[1] - 192) * 64 + (s[2] - 128)>>
                    \o Utf8Decode(Tail(Tail(s))).v]
    ELSE [ok |-> FALSE, v |-> <<>>]

\* str.encode('utf-8') of code points below 2048
RECURSIVE Utf8Encode(_)
Utf8Encode(u) ==
    IF u = <<>> THEN <<>>
    ELSE IF u[1] < 128 THEN <<u[1]>> \o Utf8Encode(Tail(u))
    ELSE <<192 + (u[1] \div 64), 128 + (u[1] % 64)>> \o Utf8Encode(Tail(u))

\* the byte strings and the strings a caller may pass: "A", U+00E9 and a
\* truncated two-byte sequence
BytesInputs == {<<65>>, <<195, 169>>, <<195>>}

StringInputs == {<<65>>, <<233>>}

\* Context.getStringForBytes: [c, ret]
Ctx_getStringForBytes(ctx, s) ==
    IF DictGet(ctx.unicodes, s).k # "none"
    THEN [c |-> ctx, ret |-> DictGet(ctx.unicodes, s)]
    ELSE IF ~Utf8Decode(s).ok
    THEN [c |-> ctx, ret |-> RRaise("UnicodeDecodeError")]
    ELSE [c |-> [ctx EXCEPT
                    !.unicodes = DictSet(ctx.unicodes, s,
                                         [k |-> "str", v |-> Utf8Decode(s).v]),
                    !.strings = DictSet(ctx.strings, Utf8Decode(s).v,
                                        [k |-> "bytes", v |-> s])],
          ret |-> [k |-> "str", v |-> Utf8Decode(s).v]]

\* Context.getBytesForString: [c, ret]
Ctx_getBytesForString_one_way(ctx, u) ==
    IF DictGet(ctx.strings, u).k # "none"
    THEN [c |-> ctx, ret |-> DictGet(ctx.strings, u)]
    ELSE [c |-> [ctx EXCEPT
                    !.strings = DictSet(ctx.strings, u,
                                        [k |-> "bytes", v |-> Utf8Encode(u)])],
          ret |-> [k |-> "bytes", v |-> Utf8Encode(u)]]

Ctx_getBytesForString(ctx, u) ==
    IF DictGet(ctx.strings, u).k # "none"
    THEN [c |-> ctx, ret |-> DictGet(ctx.strings, u)]
    ELSE [c |-> [ctx EXCEPT
                    !.unicodes = DictSet(ctx.unicodes, Utf8Encode(u),
                                         [k |-> "str", v |-> u]),
                    !.strings = DictSet(ctx.strings, u,
                                        [k |-> "bytes", v |-> Utf8Encode(u)])],
          ret |-> [k |-> "bytes", v |-> Utf8Encode(u)]]

(***************************************************************************)
(* Decoder: [buf, pos, depth, context, heap, fin].  buf and pos are the    *)
(* stream; heap holds the lists the reader has created, the i-th list      *)
(* being the object named i; fin logs the calls of the post-decode         *)
(* processors.                                                             *)
(*                                                                         *)
(* readConcreteElement is the reader of a subclass.  The one modelled here *)
(* reads the AMF0 markers Null, Boolean, StrictArray and Reference.        *)
(***************************************************************************)
NullMarker == 5
BooleanMarker == 1
StrictArrayMarker == 10
ReferenceMarker == 7
\* MovieClip, a marker no reader supports
UnsupportedMarker == 4

VNull == [k |-> "null", v |-> 0]
VBool(b) == [k |-> "bool", v |-> b]

\* the outcome of a read: the decoder after it, "ok" or the exception raised,
\* the value read, and the depth at which the exception was raised
Res(d, st, val, at) == [d |-> d, st |-> st, val |-> val, at |-> at]

\* the stream: at_eof, the n bytes at the cursor, and the cursor moved past them
AtEof(d) == d.pos = Len(d.buf)
CanRead(d, n) == d.pos + n <= Len(d.buf)
Peek(d, n) == SubSeq(d.buf, d.pos + 1, d.pos + n)
Skip(d, n) == [d EXCEPT !.pos = @ + n]

\* a big-endian unsigned integer
RECURSIVE BigEndian(_)
BigEndian(bs) ==
    IF bs = <<>> THEN 0
    ELSE BigEndian(SubSeq(bs, 1, Len(bs) - 1)) * 256 + bs[Len(bs)]

\* miniamf.POST_DECODE_PROCESSORS, and what a processor makes of a payload
POST_DECODE_PROCESSORS == <<"p1", "p2">>

Processed(c, payload) == [k |-> c, v |-> payload]

\* Decoder.finalise: the for loop from the i-th processor on
RECURSIVE D_finaliseFrom(_, _, _)
D_finaliseFrom(d, payload, i) ==
    IF i > Len(POST_DECODE_PROCESSORS) THEN Res(d, "ok", payload, 0)
    ELSE D_finaliseFrom(
            [d EXCEPT !.fin = Append(@, [c |-> POST_DECODE_PROCESSORS[i],
                                         payload |-> payload,
                                         extra |-> d.context.extra])],
            Processed(POST_DECODE_PROCESSORS[i], payload), i + 1)

\* Decoder.finalise
D_finalise(d, payload) == D_finaliseFrom(d, payload, 1)

RECURSIVE D_readElement(_)
RECURSIVE D_readItems(_, _, _)

\* readConcreteElement(t), the cursor being past the marker t
D_readConcreteElement(d, t) ==
    CASE t = NullMarker -> Res(d, "ok", VNull, 0)
      [] t = BooleanMarker ->
            IF CanRead(d, 1) THEN Res(Skip(d, 1), "ok", VBool(Peek(d, 1)[1]), 0)
            ELSE Res(d, "IOError", VNull, d.depth)
      [] t = StrictArrayMarker ->
            \* the new list is registered before its elements are read
            IF CanRead(d, 4)
            THEN D_readItems(
                    Skip([d EXCEPT !.heap = Append(@, <<>>),
                                   !.context = Ctx_addObject(d.context, Len(d.heap) + 1).c],
                         4),
                    Len(d.heap) + 1, BigEndian(Peek(d, 4)))
            ELSE Res([d EXCEPT !.heap = Append(@, <<>>),
                               !.context = Ctx_addObject(d.context, Len(d.heap) + 1).c],
                     "IOError", VNull, d.depth)
      [] t = ReferenceMarker ->
            IF ~CanRead(d, 2) THEN Res(d, "IOError", VNull, d.depth)
            ELSE IF Ctx_getObject(d.context, BigEndian(Peek(d, 2))).k = "none"
            THEN Res(Skip(d, 2), "ReferenceError", VNull, d.depth)
            ELSE Res(Skip(d, 2), "ok",
                     Ctx_getObject(d.context, BigEndian(Peek(d, 2))), 0)
      [] OTHER -> Res(d, "DecodeError", VNull, d.depth)

\* the loop of the list reader: n more elements for the list named id
D_readItems(d, id, n) ==
    IF n = 0 THEN Res(d, "ok", RObj(id), 0)
    ELSE LET r == D_readElement(d)
         IN  IF r.st # "ok" THEN r
             ELSE D_readItems([r.d EXCEPT !.heap[id] = Append(@, r.val)], id, n - 1)

\* Decoder._readElement
D__readElement_no_seek(d) ==
    IF AtEof(d) THEN Res(d, "EOStream", VNull, d.depth)
    ELSE D_readConcreteElement(Skip(d, 1), Peek(d, 1)[1])

D__readElement_seeks_on_any_error(d) ==
    IF AtEof(d) THEN Res(d, "EOStream", VNull, d.depth)
    ELSE LET r == D_readConcreteElement(Skip(d, 1), Peek(d, 1)[1])
         IN  IF r.st # "ok" THEN [r EXCEPT !.d.pos = d.pos] ELSE r

D__readElement(d) ==
    IF AtEof(d) THEN Res(d, "EOStream", VNull, d.depth)
    ELSE LET r == D_readConcreteElement(Skip(d, 1), Peek(d, 1)[1])
         IN  IF r.st = "IOError" THEN [r EXCEPT !.d.pos = d.pos] ELSE r

\* Decoder.readElement
D_readElement_finalise_nested(d) ==
    LET r == D__readElement([d EXCEPT !.depth = @ + 1])
    IN  IF r.st # "ok" THEN [r EXCEPT !.d.depth = @ - 1]
        ELSE D_finalise([r.d EXCEPT !.depth = @ - 1], r.val)

D_readElement_leaks_depth(d) ==
    LET r == D__readElement([d EXCEPT !.depth = @ + 1])
    IN  IF r.st # "ok" THEN r
        ELSE IF r.d.depth - 1 = 0
        THEN D_finalise([r.d EXCEPT !.depth = @ - 1], r.val)
        ELSE [r EXCEPT !.d.depth = @ - 1]

D_readElement(d) ==
    LET r == D__readElement([d EXCEPT !.depth = @ + 1])
    IN  IF r.st # "ok" THEN [r EXCEPT !.d.depth = @ - 1]
        ELSE IF r.d.depth - 1 = 0
        THEN D_finalise([r.d EXCEPT !.depth = @ - 1], r.val)
        ELSE [r EXCEPT !.d.depth = @ - 1]

\* Decoder.__next__
D_next_catches_IOError(d) ==
    LET r == D_readElement(d)
    IN  IF r.st \in {"EOStream", "IOError"} THEN [r EXCEPT !.st = "StopIteration"]
        ELSE r

D_next(d) ==
    LET r == D_readElement(d)
    IN  IF r.st = "EOStream" THEN [r EXCEPT !.st = "StopIteration"] ELSE r

\* Decoder.send: stream.append(data) adds to the end and keeps the cursor
D_send(d, data) == [d EXCEPT !.buf = @ \o data]

\* Decoder.__cinit__ and Codec.__init__ with an empty stream
D_init ==
    [buf |-> <<>>, pos |-> 0, depth |-> 0, context |-> Ctx_init(TRUE, TRUE),
     heap |-> <<>>, fin |-> <<>>]

(***************************************************************************)
(* Encoder: [bucket, buf, pos, func_cache, use_write_object, context,      *)
(* calls, consulted].  buf and pos are the stream, a sequence of tokens    *)
(* [k, v]; calls logs the adapter calls made and consulted the look-ups in *)
(* TYPE_MAP.                                                               *)
(*                                                                         *)
(* A host value is [t, f, items]: the name of its Python type, an          *)
(* attribute that tells instances apart and that predicates may look at,   *)
(* and the elements of a container.  The writers of the concrete types     *)
(* belong to a subclass; the ones modelled here write one token per scalar *)
(* and, for a container, a reference or a header and the elements.         *)
(***************************************************************************)
Val(t, f) == [t |-> t, f |-> f, items |-> <<>>]
Container(t, f, items) == [t |-> t, f |-> f, items |-> items]
None == Val("NoneType", 0)

Tok(k, v) == [k |-> k, v |-> v]

\* the outcome of a write: the encoder after it, "ok" or the exception raised,
\* and the int returned
EOk(e, ret) == [e |-> e, st |-> "ok", ret |-> ret]
ERaise(e, x) == [e |-> e, st |-> x, ret |-> -1]

\* stream.write(toks) at the cursor
E_write(e, toks) ==
    [e EXCEPT !.buf = SubSeq(e.buf, 1, e.pos) \o toks
                         \o SubSeq(e.buf, e.pos + Len(toks) + 1, Len(e.buf)),
              !.pos = e.pos + Len(toks)]

\* stream.seek(pos)
E_seek(e, pos) == [e EXCEPT !.pos = pos]

\* stream.read(n): the n tokens at the cursor, which moves past them
E_read(e, n) ==
    [e |-> [e EXCEPT !.pos = e.pos + n],
     bytes |-> SubSeq(e.buf, e.pos + 1, e.pos + n)]

\* a writer of a scalar type
E_writeScalar(e, name, o) == EOk(E_write(e, <<Tok(name, o.f)>>), 0)

\* Encoder.writeDate: the date becomes a datetime at midnight
E_writeDate(e, o) == E_writeScalar(e, "writeDateTime", o)

\* a writer of an object: a reference if the Context knows it, else addObject
\* and the body
E_writeObject(e, o) ==
    IF Ctx_getObjectReference(e.context, o) >= 0
    THEN EOk(E_write(e, <<Tok("reference", Ctx_getObjectReference(e.context, o))>>), 0)
    ELSE EOk(E_write([e EXCEPT !.context = Ctx_addObject(e.context, o).c],
                     <<Tok("writeObject", o.f)>>), 0)

\* the Python type hierarchy: whether cls is t or a base of t
IsSubclass(t, cls) == t = cls \/ (t = "L" /\ cls = "list")

\* isinstance(data, cls)
IsInstance(data, cls) == IsSubclass(data.t, cls)

\* the keys of TYPE_MAP: classes, a function of one argument, and a string
\* (neither a class nor callable)
IsClass(type_) == type_ \in {"K", "J", "list", "int"}
Callable(type_) == IsClass(type_) \/ type_ = "flagged"

\* the result of the callable key applied to data
PredicateResult(type_, data) == type_ = "flagged" /\ data.f = 1

\* the adapters: what func(data, encoder=encoder) writes and returns
Adapter(func, data) ==
    CASE func = "replace" -> [toks |-> <<>>, ret |-> Val("int", 0)]
      [] OTHER -> [toks |-> <<Tok(func, data.f)>>, ret |-> None]

\* get_custom_type_func: the for loop from the i-th entry of TYPE_MAP on;
\* [func |-> the adapter or "none", evaluated |-> the entries looked at]
RECURSIVE get_custom_type_func_from(_, _, _)
get_custom_type_func_from(tm, data, i) ==
    IF i > Len(tm) THEN [func |-> "none", evaluated |-> Len(tm)]
    ELSE IF IsClass(tm[i].type_)
    THEN IF IsInstance(data, tm[i].type_)
         THEN [func |-> tm[i].func, evaluated |-> i]
         ELSE get_custom_type_func_from(tm, data, i + 1)
    ELSE IF Callable(tm[i].type_) /\ PredicateResult(tm[i].type_, data)
    THEN [func |-> tm[i].func, evaluated |-> i]
    ELSE get_custom_type_func_from(tm, data, i + 1)

get_custom_type_func_last_match(tm, data) ==
    IF \E i \in 1..Len(tm) : get_custom_type_func_from(tm, data, i).evaluated = i
                               /\ get_custom_type_func_from(tm, data, i).func # "none"
    THEN LET i == CHOOSE j \in 1..Len(tm) :
                     /\ get_custom_type_func_from(tm, data, j).evaluated = j
                     /\ get_custom_type_func_from(tm, data, j).func # "none"
                     /\ get_custom_type_func_from(tm, data, j + 1).func = "none"
         IN  [func |-> tm[i].func, evaluated |-> Len(tm)]
    ELSE [func |-> "none", evaluated |-> Len(tm)]

get_custom_type_func(tm, data) == get_custom_type_func_from(tm, data, 1)

\* Encoder.checkBadTypes
E_checkBadTypes(element) ==
    IF element.t = "module" THEN "EncodeError"
    ELSE IF element.t = "method" THEN "EncodeError"
    ELSE IF element.t \in {"function", "builtin_function_or_method"} THEN "EncodeError"
    ELSE IF element.t = "type" THEN "EncodeError"
    ELSE IF element.t = "time" THEN "EncodeError"
    ELSE "ok"

RECURSIVE E_writeElement(_, _, _)

\* the elements of a container, one writeElement each, up to the first error
RECURSIVE E_writeItems(_, _, _)
E_writeItems(e, tm, items) ==
    IF items = <<>> THEN EOk(e, 0)
    ELSE IF E_writeElement(e, tm, Head(items)).st # "ok"
    THEN E_writeElement(e, tm, Head(items))
    ELSE E_writeItems(E_writeElement(e, tm, Head(items)).e, tm, Tail(items))

\* a writer of a container: a reference if the Context knows it, else
\* addObject, the header and the elements
E_writeContainer(e, tm, name, o) ==
    IF Ctx_getObjectReference(e.context, o) >= 0
    THEN EOk(E_write(e, <<Tok("reference", Ctx_getObjectReference(e.context, o))>>), 0)
    ELSE E_writeItems(E_write([e EXCEPT !.context = Ctx_addObject(e.context, o).c],
                              <<Tok(name, Len(o.items))>>),
                      tm, o.items)

\* Encoder.writeGenerator
E_writeGenerator(e, tm, o) == E_writeItems(e, tm, o.items)

\* ClassAlias.external
External(alias) == ~alias.defer

\* list(iterable): a new list with the elements of iterable, an object of
\* its own each time: the serial-th object made by the encoder
ListCopy(iterable, serial) ==
    Container("list", 2 + iterable.f + 2 * serial, iterable.items)

\* Encoder.writeSequence
E_writeSequence(e, tm, iterable) ==
    LET a == Ctx_getClassAlias(e.context, iterable.t,
                               Cardinality(DOMAIN e.context.class_aliases) + 1)
        e1 == [e EXCEPT !.context = a.c]
    IN  IF a.ret.k # "alias"
        THEN E_writeContainer(e1, tm, "writeList", ListCopy(iterable, e1.context.objects.length))
        ELSE IF External(a.ret.v)
        THEN E_writeObject([e1 EXCEPT !.use_write_object = Append(@, iterable.t)],
                           iterable)
        ELSE E_writeContainer(e1, tm, "writeList", ListCopy(iterable, e1.context.objects.length))

\* Encoder.handleBasicTypes: ret 0 = handled, 1 = not handled
E_handleBasicTypes(e, tm, element) ==
    IF element.t = "bytes" THEN E_writeScalar(e, "writeBytes", element)
    ELSE IF element.t = "str" THEN E_writeScalar(e, "writeString", element)
    ELSE IF element.t = "NoneType" THEN E_writeScalar(e, "writeNull", element)
    ELSE IF element.t = "bool" THEN E_writeScalar(e, "writeBoolean", element)
    ELSE IF element.t = "int" THEN E_writeScalar(e, "writeLong", element)
    ELSE IF element.t = "float" THEN E_writeScalar(e, "writeNumber", element)
    ELSE IF element.t = "list" THEN E_writeContainer(e, tm, "writeList", element)
    ELSE IF element.t = "tuple" THEN E_writeContainer(e, tm, "writeTuple", element)
    ELSE IF element.t = "Undefined" THEN E_writeScalar(e, "writeUndefined", element)
    ELSE IF element.t = "dict" THEN E_writeContainer(e, tm, "writeDict", element)
    ELSE IF element.t = "datetime" THEN E_writeScalar(e, "writeDateTime", element)
    ELSE IF element.t = "date" THEN E_writeDate(e, element)
    ELSE IF element.t = "MixedArray"
    THEN E_writeContainer(e, tm, "writeMixedArray", element)
    ELSE IF element.t = "generator" THEN E_writeGenerator(e, tm, element)
    ELSE IF \E i \in 1..Len(e.use_write_object) : e.use_write_object[i] = element.t
    THEN E_writeObject(e, element)
    ELSE IF element.t = "xml" THEN E_writeScalar(e, "writeXML", element)
    ELSE EOk(e, 1)

\* the types handleBasicTypes accepts whatever use_write_object holds
BasicTypes ==
    {"bytes", "str", "NoneType", "bool", "int", "float", "list", "tuple",
     "Undefined", "dict", "datetime", "date", "MixedArray", "generator", "xml"}

\* _CustomTypeFunc.__call__
CustomTypeFunc_call_twice(e, tm, func, data) ==
    LET e1 == [E_write(e, Adapter(func, data).toks \o Adapter(func, data).toks)
               EXCEPT !.calls = @ \o <<[func |-> func, data |-> data],
                                       [func |-> func, data |-> data]>>]
    IN  IF Adapter(func, data).ret # None
        THEN E_writeElement(e1, tm, Adapter(func, data).ret)
        ELSE EOk(e1, 0)

CustomTypeFunc_call(e, tm, func, data) ==
    LET e1 == [E_write(e, Adapter(func, data).toks)
               EXCEPT !.calls = Append(@, [func |-> func, data |-> data])]
    IN  IF Adapter(func, data).ret # None
        THEN E_writeElement(e1, tm, Adapter(func, data).ret)
        ELSE EOk(e1, 0)

\* Encoder.writeElement, after handleBasicTypes has returned 1
E_writeCustom_object_first(e, tm, element) ==
    IF E_checkBadTypes(element) = "ok"
    THEN IF IsInstance(element, "list") \/ IsInstance(element, "tuple")
         THEN E_writeSequence(
                 [e EXCEPT !.use_write_object = Append(@, element.t)], tm, element)
         ELSE E_writeObject(
                 [e EXCEPT !.use_write_object = Append(@, element.t)], element)
    ELSE IF get_custom_type_func(tm, element).func = "none"
    THEN ERaise(e, E_checkBadTypes(element))
    ELSE CustomTypeFunc_call(e, tm, get_custom_type_func(tm, element).func, element)

E_writeCustom(e, tm, element) ==
    IF element.t \in DOMAIN e.func_cache
    THEN [CustomTypeFunc_call(e, tm, e.func_cache[element.t], element)
          EXCEPT !.ret = IF @ = -1 THEN -1 ELSE 1]
    ELSE LET g == get_custom_type_func(tm, element)
             e1 == [e EXCEPT !.consulted =
                        Append(@, [data |-> element, evaluated |-> g.evaluated,
                                   func |-> g.func])]
         IN  IF g.func = "none"
             THEN IF E_checkBadTypes(element) # "ok"
                  THEN ERaise(e1, E_checkBadTypes(element))
                  ELSE IF IsInstance(element, "list") \/ IsInstance(element, "tuple")
                  THEN E_writeSequence(
                          [e1 EXCEPT !.use_write_object = Append(@, element.t)],
                          tm, element)
                  ELSE E_writeObject(
                          [e1 EXCEPT !.use_write_object = Append(@, element.t)],
                          element)
             ELSE [CustomTypeFunc_call(
                      [e1 EXCEPT !.func_cache = DictSet(@, element.t, g.func)],
                      tm, g.func, element)
                   EXCEPT !.ret = IF @ = -1 THEN -1 ELSE 1]

\* Encoder.writeElement
E_writeElement_type_map_first(e, tm, element) ==
    IF get_custom_type_func(tm, element).func # "none"
    THEN E_writeCustom(e, tm, element)
    ELSE IF E_handleBasicTypes(e, tm, element).st # "ok"
            \/ E_handleBasicTypes(e, tm, element).ret # 1
    THEN E_handleBasicTypes(e, tm, element)
    ELSE E_writeCustom(e, tm, element)

E_writeElement(e, tm, element) ==
    IF E_handleBasicTypes(e, tm, element).st # "ok"
            \/ E_handleBasicTypes(e, tm, element).ret # 1
    THEN E_handleBasicTypes(e, tm, element)
    ELSE E_writeCustom(e, tm, element)

\* Encoder.send
E_send(e, data) == [e EXCEPT !.bucket = Append(@, data)]

\* Encoder.__next__: [e, st, ret |-> the bytes returned]
E_next_puts_back(e, tm) ==
    IF e.bucket = <<>> THEN [e |-> e, st |-> "StopIteration", ret |-> <<>>]
    ELSE LET r == E_writeElement([e EXCEPT !.bucket = Tail(@)], tm, Head(e.bucket))
         IN  IF r.st # "ok"
             THEN [e |-> [r.e EXCEPT !.bucket = e.bucket], st |-> r.st, ret |-> <<>>]
             ELSE [e |-> r.e, st |-> "ok", ret |-> SubSeq(r.e.buf, e.pos + 1, r.e.pos)]

E_next_rewinds(e, tm) ==
    IF e.bucket = <<>> THEN [e |-> e, st |-> "StopIteration", ret |-> <<>>]
    ELSE LET r == E_writeElement([e EXCEPT !.bucket = Tail(@)], tm, Head(e.bucket))
         IN  IF r.st # "ok"
             THEN [e |-> [r.e EXCEPT !.pos = e.pos], st |-> r.st, ret |-> <<>>]
             ELSE [e |-> r.e, st |-> "ok", ret |-> SubSeq(r.e.buf, e.pos + 1, r.e.pos)]

E_next_peeks(e, tm) ==
    IF e.bucket = <<>> THEN [e |-> e, st |-> "StopIteration", ret |-> <<>>]
    ELSE LET r == E_writeElement([e EXCEPT !.bucket = Tail(@)], tm, Head(e.bucket))
             rd == E_read(E_seek(r.e, e.pos), r.e.pos - e.pos)
         IN  IF r.st # "ok"
             THEN [e |-> r.e, st |-> r.st, ret |-> <<>>]
             ELSE [e |-> E_seek(r.e, e.pos), st |-> "ok", ret |-> rd.bytes]

E_next(e, tm) ==
    IF e.bucket = <<>> THEN [e |-> e, st |-> "StopIteration", ret |-> <<>>]
    ELSE LET r == E_writeElement([e EXCEPT !.bucket = Tail(@)], tm, Head(e.bucket))
             rd == E_read(E_seek(r.e, e.pos), r.e.pos - e.pos)
         IN  IF r.st # "ok"
             THEN [e |-> r.e, st |-> r.st, ret |-> <<>>]
             ELSE [e |-> rd.e, st |-> "ok", ret |-> rd.bytes]

\* Encoder.__cinit__ and Codec.__init__ with an empty stream
E_init ==
    [bucket |-> <<>>, buf |-> <<>>, pos |-> 0, func_cache |-> <<>>,
     use_write_object |-> <<>>, context |-> Ctx_init(TRUE, TRUE),
     calls |-> <<>>, consulted |-> <<>>]

(***************************************************************************)
(* The state.                                                              *)
(***************************************************************************)
VARIABLES
    objects,    \* an IndexedCollection (Context.objects in the Context's runs)
    nApp,       \* the number of appends that returned since the last clear()
    nCalls,     \* the number of append calls made so far (bounded by MaxApp)
    last,       \* the last call: [op, arg, ret, len0 (the length before it)]
    context,    \* a Context
    nAlias,     \* the number of default aliases created so far
    kids,       \* the object graph being encoded: the children of each object
    work,       \* the values the encoder has still to write, next one first
    out,        \* the payload written so far, one entry per header
    bodies,     \* how many times the body of each object has been written
    decoder,    \* a Decoder with its stream and Context
    wire,       \* the bytes of the payload not yet sent to the decoder
    yields,     \* the outcome of each next() so far, with the bytes sent by then
    encoder,    \* an Encoder with its stream, bucket and Context
    type_map,   \* miniamf.TYPE_MAP, fixed while the encoder is in use
    sends,      \* the values passed to Encoder.send so far
    pulls       \* each Encoder next() that found a value: [element, st, bytes]

collVars == <<objects, nApp, nCalls>>
ctxVars == <<context, nAlias>>
encVars == <<kids, work, out, bodies>>
decVars == <<decoder, wire, yields>>
pushVars == <<encoder, type_map, sends, pulls>>
vars == <<objects, nApp, nCalls, last, context, nAlias, kids, work, out, bodies,
          decoder, wire, yields, encoder, type_map, sends, pulls>>

\* the values of the variables a run does not use
IdleColl == objects = IC_init(FALSE)
IdleCtx == context = Ctx_init(TRUE, TRUE) /\ nAlias = 0
IdleEnc == kids = <<>> /\ work = <<>> /\ out = <<>> /\ bodies = <<>>
IdleDec == decoder = D_init /\ wire = <<>> /\ yields = <<>>
IdlePush == encoder = E_init /\ type_map = <<>> /\ sends = <<>> /\ pulls = <<>>

Call(op, arg, ret, len0) == [op |-> op, arg |-> arg, ret |-> ret, len0 |-> len0]

\* the refs a caller may pass to getByReference
RefInputs == {-1, 0, 1, objects.length - 1, objects.length, objects.size}

(***************************************************************************)
(* The IndexedCollection on its own, in either mode.                       *)
(***************************************************************************)
Init ==
    /\ \E use_hash \in BOOLEAN, n \in {0, PreFill} :
          /\ objects = IC_filled(use_hash, n)
          /\ nApp = n
    /\ nCalls = 0
    /\ last = Call("init", 0, RNone, 0)
    /\ IdleCtx
    /\ IdleEnc
    /\ IdleDec
    /\ IdlePush

append(obj) ==
    /\ nCalls < MaxApp
    /\ nCalls' = nCalls + 1
    /\ objects' = IC_append(objects, obj).c
    /\ nApp' = IF IC_append(objects, obj).ret.k = "int" THEN nApp + 1 ELSE nApp
    /\ last' = Call("append", obj, IC_append(objects, obj).ret, objects.length)

getReferenceTo(obj) ==
    /\ last' = Call("getReferenceTo", obj,
                    IF IC_ref_raises(objects, obj) THEN RRaise("TypeError")
                    ELSE RInt(IC_getReferenceTo(objects, obj)),
                    objects.length)
    /\ UNCHANGED collVars

getByReference(ref) ==
    /\ last' = Call("getByReference", ref, IC_getByReference(objects, ref),
                    objects.length)
    /\ UNCHANGED collVars

clear ==
    /\ objects' = IC_clear(objects)
    /\ nApp' = 0
    /\ last' = Call("clear", 0, RNone, objects.length)
    /\ UNCHANGED nCalls

Next ==
    /\ \/ \E obj \in Obj : append(obj)
       \/ \E obj \in Obj : getReferenceTo(obj)
       \/ \E ref \in RefInputs : getByReference(ref)
       \/ clear
    /\ UNCHANGED <<ctxVars, encVars, decVars, pushVars>>

Spec == Init /\ [][Next]_vars

(***************************************************************************)
(* The ByteStringReferenceCollection.                                      *)
(***************************************************************************)
InitByteString ==
    /\ objects = IC_init(FALSE)
    /\ nApp = 0
    /\ nCalls = 0
    /\ last = Call("init", 0, RNone, 0)
    /\ IdleCtx
    /\ IdleEnc
    /\ IdleDec
    /\ IdlePush

ByteString_append(obj) ==
    /\ nCalls < MaxApp
    /\ nCalls' = nCalls + 1
    /\ objects' = BS_append(objects, obj).c
    /\ nApp' = nApp + 1
    /\ last' = Call("append", obj, BS_append(objects, obj).ret, objects.length)

ByteString_getReferenceTo(obj) ==
    /\ last' = Call("getReferenceTo", obj, RInt(BS_getReferenceTo(objects, obj)),
                    objects.length)
    /\ UNCHANGED collVars

ByteString_getByReference(ref) ==
    /\ last' = Call("getByReference", ref, IC_getByReference(objects, ref),
                    objects.length)
    /\ UNCHANGED collVars

ByteString_clear ==
    /\ objects' = IC_clear(objects)
    /\ nApp' = 0
    /\ last' = Call("clear", 0, RNone, objects.length)
    /\ UNCHANGED nCalls

NextByteString ==
    /\ \/ \E obj \in Obj : ByteString_append(obj)
       \/ \E obj \in Obj : ByteString_getReferenceTo(obj)
       \/ \E ref \in RefInputs : ByteString_getByReference(ref)
       \/ ByteString_clear
    /\ UNCHANGED <<ctxVars, encVars, decVars, pushVars>>

SpecByteString == InitByteString /\ [][NextByteString]_vars

(***************************************************************************)
(* The Context.                                                            *)
(***************************************************************************)
\* whether every table of the context holds something
AllTablesUsed(ctx) ==
    /\ ctx.objects.length > 0
    /\ ~IsEmpty(ctx.class_aliases)
    /\ ~IsEmpty(ctx.unicodes)
    /\ ~IsEmpty(ctx.strings)
    /\ ~IsEmpty(ctx.extra)

CtxCall(op, arg, ret) ==
    [op |-> op, arg |-> arg, ret |-> ret, len0 |-> context.objects.length,
     full |-> AllTablesUsed(context)]

\* the keys adapters store under in Context.extra
ExtraKeys == {"k1"}

CtxRefInputs == {-1, 0, 1, context.objects.length}

InitContext ==
    /\ context = Ctx_init(TRUE, TRUE)
    /\ nAlias = 0
    /\ nApp = 0
    /\ nCalls = 0
    /\ last = [op |-> "init", arg |-> 0, ret |-> RNone, len0 |-> 0, full |-> FALSE]
    /\ IdleColl
    /\ IdleEnc
    /\ IdleDec
    /\ IdlePush

addObject(obj) ==
    /\ nCalls < MaxAdd
    /\ nCalls' = nCalls + 1
    /\ context' = Ctx_addObject(context, obj).c
    /\ nApp' = nApp + 1
    /\ last' = CtxCall("addObject", obj, Ctx_addObject(context, obj).ret)
    /\ UNCHANGED nAlias

getObjectReference(obj) ==
    /\ last' = CtxCall("getObjectReference", obj,
                       RInt(Ctx_getObjectReference(context, obj)))
    /\ UNCHANGED <<context, nAlias, nApp, nCalls>>

getObject(ref) ==
    /\ last' = CtxCall("getObject", ref, Ctx_getObject(context, ref))
    /\ UNCHANGED <<context, nAlias, nApp, nCalls>>

Context_clear ==
    /\ context' = Ctx_clear(context)
    /\ nApp' = 0
    /\ last' = CtxCall("clear", 0, RNone)
    /\ UNCHANGED <<nAlias, nCalls>>

getClassAlias(klass) ==
    /\ Ctx_getClassAlias(context, klass, nAlias + 1).made => nAlias < MaxAlias
    /\ context' = Ctx_getClassAlias(context, klass, nAlias + 1).c
    /\ nAlias' = IF Ctx_getClassAlias(context, klass, nAlias + 1).made
                 THEN nAlias + 1 ELSE nAlias
    /\ last' = CtxCall("getClassAlias", klass,
                       Ctx_getClassAlias(context, klass, nAlias + 1).ret)
    /\ UNCHANGED <<nApp, nCalls>>

getStringForBytes(s) ==
    /\ context' = Ctx_getStringForBytes(context, s).c
    /\ last' = CtxCall("getStringForBytes", s, Ctx_getStringForBytes(context, s).ret)
    /\ UNCHANGED <<nAlias, nApp, nCalls>>

getBytesForString(u) ==
    /\ context' = Ctx_getBytesForString(context, u).c
    /\ last' = CtxCall("getBytesForString", u, Ctx_getBytesForString(context, u).ret)
    /\ UNCHANGED <<nAlias, nApp, nCalls>>

\* an adapter's store into the dict Context.extra
setExtra(key) ==
    /\ context' = [context EXCEPT !.extra = DictSet(context.extra, key, RInt(1))]
    /\ last' = CtxCall("setExtra", key, RNone)
    /\ UNCHANGED <<nAlias, nApp, nCalls>>

NextContext ==
    /\ \/ \E obj \in Obj : addObject(obj)
       \/ \E obj \in Obj : getObjectReference(obj)
       \/ \E ref \in CtxRefInputs : getObject(ref)
       \/ Context_clear
       \/ \E klass \in KlassInputs : getClassAlias(klass)
       \/ \E s \in BytesInputs : getStringForBytes(s)
       \/ \E u \in StringInputs : getBytesForString(u)
       \/ \E key \in ExtraKeys : setExtra(key)
    /\ UNCHANGED <<objects, encVars, decVars, pushVars>>

SpecContext == InitContext /\ [][NextContext]_vars

(***************************************************************************)
(* An encoder writing an object graph through the Context: for each        *)
(* reference-eligible value it asks getObjectReference, writes a           *)
(* back-reference on a hit, and on a miss calls addObject, writes the      *)
(* inline header and then the children.                                    *)
(***************************************************************************)
Nodes == 1..NNode

\* the sequences of at most MaxKids children
KidSeqs == UNION {[1..n -> Nodes] : n \in 0..MaxKids}

\* the headers a payload is made of
RefHeader(idx) == [k |-> "reference", v |-> idx]
InlineHeader(obj) == [k |-> "inline", v |-> obj]

\* no more headers than this are written for any graph
MaxOut == 1 + NNode * MaxKids

InitEncode ==
    /\ context = Ctx_init(TRUE, TRUE)
    /\ nAlias = 0
    /\ kids \in [Nodes -> KidSeqs]
    /\ work = <<1>>
    /\ out = <<>>
    /\ bodies = [n \in Nodes |-> 0]
    /\ nApp = 0
    /\ nCalls = 0
    /\ last = [op |-> "init", arg |-> 0, ret |-> RNone, len0 |-> 0, full |-> FALSE]
    /\ IdleColl
    /\ IdleDec
    /\ IdlePush

\* the value at the head of work was written before: a back-reference
EncodeReference ==
    /\ work # <<>>
    /\ Ctx_getObjectReference(context, Head(work)) >= 0
    /\ out' = Append(out, RefHeader(Ctx_getObjectReference(context, Head(work))))
    /\ work' = Tail(work)
    /\ last' = CtxCall("getObjectReference", Head(work),
                       RInt(Ctx_getObjectReference(context, Head(work))))
    /\ UNCHANGED <<context, bodies, nApp>>

\* the value at the head of work is new: addObject, then header and body
EncodeInline ==
    /\ work # <<>>
    /\ Ctx_getObjectReference(context, Head(work)) < 0
    /\ Len(out) <= MaxOut
    /\ context' = Ctx_addObject(context, Head(work)).c
    /\ out' = Append(out, InlineHeader(Head(work)))
    /\ bodies' = [bodies EXCEPT ![Head(work)] = @ + 1]
    /\ work' = kids[Head(work)] \o Tail(work)
    /\ nApp' = nApp + 1
    /\ last' = CtxCall("addObject", Head(work), Ctx_addObject(context, Head(work)).ret)

EncodeStep == EncodeReference \/ EncodeInline

NextEncode ==
    /\ EncodeStep
    /\ UNCHANGED <<objects, nAlias, kids, nCalls, decVars, pushVars>>

SpecEncode == InitEncode /\ [][NextEncode]_vars /\ WF_vars(NextEncode)

(***************************************************************************)
(* The Decoder fed a payload in pieces: send adds bytes to the stream,     *)
(* next() reads one top-level element.                                     *)
(***************************************************************************)
RECURSIVE Concat(_)
Concat(ss) == IF ss = <<>> THEN <<>> ELSE Head(ss) \o Concat(Tail(ss))

\* the AMF0 encodings of null, true, a reference and an array
EncNull == <<NullMarker>>
EncTrue == <<BooleanMarker, 1>>
EncReference(idx) == <<ReferenceMarker, 0, idx>>
EncArray(items) == <<StrictArrayMarker, 0, 0, 0, Len(items)>> \o Concat(items)

\* the payloads: a scalar, a reference to the first object, an unsupported
\* marker, an array of up to MaxItems elements (the empty array among them),
\* or two values one after the other
Leaves == {EncNull, EncTrue, EncReference(0), <<UnsupportedMarker>>}

Inner == {EncNull, EncReference(0), <<UnsupportedMarker>>, EncArray(<<>>)}

ItemSeqs == UNION {[1..n -> Inner] : n \in 0..MaxItems}

Payloads ==
    Leaves \cup {EncArray(items) : items \in ItemSeqs}
           \cup {EncNull \o EncTrue, EncArray(<<>>) \o EncNull}

DecCall(op, r, raised) ==
    [op |-> op, arg |-> 0, ret |-> [k |-> r.st, v |-> r.val],
     raised |-> raised.st, at |-> raised.at,
     pos0 |-> decoder.pos, len0 |-> Len(decoder.buf)]

\* the contents adapters may have put in Context.extra before decoding
ExtraInputs == {<<>>, DictSet(<<>>, "k1", RInt(1))}

InitDecode ==
    /\ \E x \in ExtraInputs : decoder = [D_init EXCEPT !.context.extra = x]
    /\ wire \in Payloads
    /\ yields = <<>>
    /\ last = DecCall("init", Res(D_init, "ok", VNull, 0), Res(D_init, "ok", VNull, 0))
    /\ IdleColl
    /\ IdleCtx
    /\ IdleEnc
    /\ IdlePush
    /\ nApp = 0
    /\ nCalls = 0

send(n) ==
    /\ decoder' = D_send(decoder, SubSeq(wire, 1, n))
    /\ wire' = SubSeq(wire, n + 1, Len(wire))
    /\ last' = [DecCall("send", Res(decoder, "ok", VNull, 0),
                        Res(decoder, "ok", VNull, 0))
                EXCEPT !.pos0 = 0, !.len0 = 0]
    /\ UNCHANGED yields

next ==
    /\ Len(yields) < MaxNext
    /\ decoder' = D_next(decoder).d
    /\ last' = DecCall("next", D_next(decoder), D_readElement(decoder))
    /\ yields' = Append(yields, [ret |-> [k |-> D_next(decoder).st,
                                          v |-> D_next(decoder).val],
                                 sent |-> Len(decoder.buf)])
    /\ UNCHANGED wire

NextDecode ==
    /\ \/ \E n \in 1..Len(wire) : send(n)
       \/ next
    /\ UNCHANGED <<collVars, ctxVars, encVars, pushVars>>

SpecDecode == InitDecode /\ [][NextDecode]_vars

(***************************************************************************)
(* The Encoder used through send and next(), and through writeElement.     *)
(***************************************************************************)
\* the orders in which TYPE_MAP may hold its entries: classes, a function
\* that looks at the value, and a key that is neither
TypeMaps ==
    {<<[type_ |-> "K", func |-> "adaptK"],
       [type_ |-> "flagged", func |-> "replace"],
       [type_ |-> "junk", func |-> "never"],
       [type_ |-> "int", func |-> "adaptInt"]>>,
     <<[type_ |-> "flagged", func |-> "replace"],
       [type_ |-> "K", func |-> "adaptK"],
       [type_ |-> "list", func |-> "adaptList"]>>}

\* the values the types of handleBasicTypes take
BasicInputs ==
    {Val(t, 1) : t \in {"bytes", "str", "bool", "int", "float", "Undefined",
                        "datetime", "date", "xml"}}
    \cup {None,
          Container("list", 0, <<Val("int", 1), Val("module", 0)>>),
          Container("list", 1, <<Val("K", 1)>>),
          Container("tuple", 1, <<>>),
          Container("dict", 1, <<>>),
          Container("MixedArray", 1, <<>>),
          Container("generator", 1, <<Val("int", 1)>>)}

\* the values checkBadTypes refuses: two functions among them
BadInputs ==
    {Val(t, 0) : t \in {"module", "method", "function",
                        "builtin_function_or_method", "type", "time"}}
    \cup {Val("function", 1)}

\* instances of the classes K and J and of the list subclass L
CustomInputs ==
    {Val("K", 1), Val("J", 0), Val("J", 1), Container("L", 0, <<Val("int", 1)>>)}

ElementInputs == BasicInputs \cup BadInputs \cup CustomInputs

\* the values a caller passes to send
SendInputs ==
    {Val("int", 1), Val("module", 0), Val("J", 1),
     Container("list", 0, <<Val("int", 1), Val("module", 0)>>)}

EncCall(op, arg, st, ret) ==
    [op |-> op, arg |-> arg, st |-> st, ret |-> ret,
     pos0 |-> encoder.pos, len0 |-> Len(encoder.buf),
     pending |-> Len(encoder.bucket)]

InitPush ==
    /\ encoder = E_init
    /\ type_map \in TypeMaps
    /\ sends = <<>>
    /\ pulls = <<>>
    /\ last = [op |-> "init", arg |-> None, st |-> "ok", ret |-> <<>>,
               pos0 |-> 0, len0 |-> 0, pending |-> 0]
    /\ nApp = 0
    /\ nCalls = 0
    /\ IdleColl
    /\ IdleCtx
    /\ IdleEnc
    /\ IdleDec

Encoder_send(data) ==
    /\ nCalls < MaxEnc
    /\ nCalls' = nCalls + 1
    /\ encoder' = E_send(encoder, data)
    /\ sends' = Append(sends, data)
    /\ last' = EncCall("send", data, "ok", <<>>)
    /\ UNCHANGED <<type_map, pulls>>

Encoder_next ==
    /\ encoder' = E_next(encoder, type_map).e
    /\ pulls' = IF encoder.bucket = <<>> THEN pulls
                ELSE Append(pulls, [element |-> Head(encoder.bucket),
                                    st |-> E_next(encoder, type_map).st,
                                    bytes |-> E_next(encoder, type_map).ret])
    /\ last' = EncCall("next",
                       IF encoder.bucket = <<>> THEN None ELSE Head(encoder.bucket),
                       E_next(encoder, type_map).st, E_next(encoder, type_map).ret)
    /\ UNCHANGED <<type_map, sends, nCalls>>

writeElement(element) ==
    /\ nCalls < MaxEnc
    /\ nCalls' = nCalls + 1
    /\ encoder' = E_writeElement(encoder, type_map, element).e
    /\ last' = EncCall("writeElement", element,
                       E_writeElement(encoder, type_map, element).st, <<>>)
    /\ UNCHANGED <<type_map, sends, pulls>>

NextPush ==
    /\ \/ \E data \in SendInputs : Encoder_send(data)
       \/ Encoder_next
       \/ \E element \in ElementInputs : writeElement(element)
    /\ UNCHANGED <<objects, nApp, ctxVars, encVars, decVars>>

SpecPush == InitPush /\ [][NextPush]_vars

(***************************************************************************)
(* Properties of the IndexedCollection.                                    *)
(***************************************************************************)
\* the objects in the collection
Stored(c) == {Slot(c, i).v : i \in 0..(c.length - 1)}

\* the index of the latest append whose dict key is h
LastWithKey(c, h) ==
    CHOOSE i \in 0..(c.length - 1) :
        /\ IC_ref(c, Slot(c, i).v) = h
        /\ \A j \in (i + 1)..(c.length - 1) : IC_ref(c, Slot(c, j).v) # h

\* C1: an append that returns gives the length the collection had before the
\* call and adds exactly one to the length, so the k-th append since the last
\* clear() returns k-1, whatever lookups are interleaved and in either mode.
C1_AppendReturnsPreLength ==
    (last.op = "append" /\ last.ret.k = "int") =>
        /\ last.ret.v = last.len0
        /\ objects.length = last.len0 + 1
        /\ last.ret.v = nApp - 1

\* an append has just filled slot 64, the first one past the initial array
C1_Witness ==
    /\ last.op = "append"
    /\ last.ret = RInt(InitialSize)
    /\ objects.size > InitialSize

\* C2 (as claimed): for every object in the collection,
\* getByReference(getReferenceTo(obj)) is that very object, in either mode.
C2_RoundTripIdentical ==
    \A o \in Stored(objects) :
        IC_getByReference(objects, IC_getReferenceTo(objects, o)) = RObj(o)

\* C2 (amended): getByReference(getReferenceTo(obj)) is the object of the latest
\* append with obj's dict key: obj itself in identity mode, the latest
\* appended object with the same hash in use_hash mode.
C2_RoundTripLatestWithKey ==
    \A o \in Stored(objects) :
        /\ IC_getByReference(objects, IC_getReferenceTo(objects, o))
              = Slot(objects, LastWithKey(objects, IC_ref(objects, o)))
        /\ ~objects.use_hash =>
              IC_getByReference(objects, IC_getReferenceTo(objects, o)) = RObj(o)

\* in use_hash mode a lookup of a stored object resolves to another object
C2_Witness ==
    /\ objects.use_hash
    /\ objects.size > InitialSize
    /\ \E o \in Stored(objects) :
          IC_getByReference(objects, IC_getReferenceTo(objects, o)) # RObj(o)

\* the indices getReferenceTo can be asked about
Known(c) == {o \in Obj \cup Stored(c) : ~IC_ref_raises(c, o)}

\* C3 (as claimed): short of clear(), once getReferenceTo(obj) is i >= 0 it
\* stays i and getByReference(i) stays the same object, whatever is appended.
C3_IndicesStable ==
    [][last'.op # "clear" =>
        /\ \A o \in Known(objects) :
              IC_getReferenceTo(objects, o) >= 0 =>
                  IC_getReferenceTo(objects', o) = IC_getReferenceTo(objects, o)
        /\ \A i \in 0..(objects.length - 1) :
              IC_getByReference(objects', i) = IC_getByReference(objects, i)]_vars

\* C3 (amended): short of clear(), getByReference(i) stays the same object for
\* every i < length whatever is appended, growth of the array included, and
\* getReferenceTo(obj) = i >= 0 stays i across every call except an append of
\* an object with obj's dict key (obj again, or in use_hash mode an object
\* with the same hash), which moves it to the new index.
C3_IndicesStableUnlessKeyReappended ==
    [][last'.op # "clear" =>
        /\ \A o \in Known(objects) :
              IC_getReferenceTo(objects, o) >= 0 =>
                  IF /\ last'.op = "append"
                     /\ last'.ret.k = "int"
                     /\ IC_ref(objects, last'.arg) = IC_ref(objects, o)
                  THEN IC_getReferenceTo(objects', o) = objects.length
                  ELSE IC_getReferenceTo(objects', o) = IC_getReferenceTo(objects, o)
        /\ \A i \in 0..(objects.length - 1) :
              IC_getByReference(objects', i) = IC_getByReference(objects, i)]_vars

\* after the array has grown, an object appended before still has its index
C3_Witness ==
    /\ objects.size > InitialSize
    /\ last.op = "getReferenceTo"
    /\ last.ret.k = "int"
    /\ last.ret.v >= 0
    /\ last.ret.v < InitialSize - 1
    /\ last.arg \in Obj

C5_ClearResetsEveryTable ==
    last.op = "clear" =>
        /\ context.objects.length = 0
        /\ \A o \in Obj : Ctx_getObjectReference(context, o) = -1
        /\ \A ref \in -1..(MaxAdd + 1) : Ctx_getObject(context, ref) = RNone
        /\ IsEmpty(context.class_aliases)
        /\ IsEmpty(context.unicodes)
        /\ IsEmpty(context.strings)
        /\ IsEmpty(context.extra)
        /\ \A o \in Obj : Ctx_addObject(context, o).ret = RInt(0)

\* clear() has just been called on a context whose tables all held something
C5_Witness ==
    /\ last.op = "clear"
    /\ last.full
    /\ last.len0 = MaxAdd

(***************************************************************************)
(* Properties of the encoder's walk.                                       *)
(***************************************************************************)
EncodeDone == work = <<>>

\* C6: encoding any finite graph, cyclic and self-referential ones included,
\* writes the body of every object at most once, writes a bounded payload
\* and comes to an end.
C6_EncodeTerminates ==
    /\ [](\A n \in Nodes : bodies[n] <= 1)
    /\ [](Len(out) <= MaxOut)
    /\ <>EncodeDone

\* the encoding of a graph in which an object is its own child and the two
\* objects refer to each other has ended, with back-references written
C6_Witness ==
    /\ EncodeDone
    /\ \E i \in 1..Len(kids[1]) : kids[1][i] = 1
    /\ \E i \in 1..Len(kids[1]) : kids[1][i] = 2
    /\ \E i \in 1..Len(kids[2]) : kids[2][i] = 1
    /\ \A n \in Nodes : bodies[n] = 1
    /\ \E i \in 1..Len(out) : out[i] = RefHeader(0)

(***************************************************************************)
(* Properties of the Decoder's iterator.                                   *)
(***************************************************************************)
\* C7: next() on a stream that is at its end at a top-level boundary signals
\* StopIteration and consumes nothing; every exception other than EOStream
\* raised while the element is read reaches the caller unchanged.
C7_ExhaustionAndPropagation ==
    last.op = "next" =>
        /\ last.pos0 = last.len0 =>
              /\ last.ret.k = "StopIteration"
              /\ decoder.pos = last.pos0
        /\ last.raised \notin {"ok", "EOStream"} => last.ret.k = last.raised

\* a first next() raised DecodeError on an unsupported marker, and the next
\* one, the stream being at its end, signalled StopIteration
C7_Witness ==
    /\ Len(yields) = 2
    /\ yields[1].ret.k = "DecodeError"
    /\ last.op = "next"
    /\ last.pos0 = last.len0
    /\ last.len0 > 0
    /\ last.ret.k = "StopIteration"

\* next() was called with bytes to read and the stream ran out before the
\* top-level value was complete
RanOutMidValue ==
    /\ last.op = "next"
    /\ last.pos0 < last.len0
    /\ last.raised \in {"IOError", "EOStream"}

\* C8 (as claimed): when the stream runs out in the middle of a top-level
\* value, next() seeks back to the start of the value and signals
\* StopIteration.
C8_MidValueSignalsExhaustion ==
    RanOutMidValue =>
        /\ last.ret.k = "StopIteration"
        /\ decoder.pos = last.pos0

\* C8 (amended): when a read inside a top-level value fails with IOError for
\* lack of bytes, at any depth, next() leaves the stream at the start of that
\* value and raises the IOError to the caller, not StopIteration.
C8_MidValueSeeksBackAndRaises ==
    (last.op = "next" /\ last.raised = "IOError") =>
        /\ last.ret.k = "IOError"
        /\ decoder.pos = last.pos0
        /\ decoder.depth = 0

\* a read two levels down ran out of bytes after part of the value was read
C8_Witness ==
    /\ last.op = "next"
    /\ last.raised = "IOError"
    /\ last.at > 1
    /\ last.len0 > last.pos0 + 5
    /\ decoder.pos = last.pos0

\* C9: when the stream is at its end where a nested element (depth > 1) has
\* to be read, next() raises an error and does not signal StopIteration.
C9_NestedExhaustionIsFatal ==
    (last.op = "next" /\ last.raised = "EOStream" /\ last.at > 1) =>
        last.ret.k \notin {"StopIteration", "ok"}

\* whether v1 in heap h1 and v2 in heap h2 are the same value down to depth n
RECURSIVE SameValue(_, _, _, _, _)
SameValue(h1, v1, h2, v2, n) ==
    IF v1.k # v2.k THEN FALSE
    ELSE IF v1.k = "obj"
    THEN \/ n = 0
         \/ /\ Len(h1[v1.v]) = Len(h2[v2.v])
            /\ \A i \in 1..Len(h1[v1.v]) :
                  SameValue(h1, h1[v1.v][i], h2, h2[v2.v][i], n - 1)
    ELSE IF v1.k \in {"null", "bool"} THEN v1.v = v2.v
    ELSE SameValue(h1, v1.v, h2, v2.v, n)

\* the outcome of next() on a new decoder sent the payload in one piece
Whole(payload) == D_next(D_send(D_init, payload))

\* the payload was sent in two parts, a next() after the first part raised
\* IOError, and a second next() followed the second part
SentInTwoParts ==
    /\ wire = <<>>
    /\ Len(yields) = 2
    /\ last.op = "next"
    /\ yields[1].sent > 0
    /\ yields[1].sent < Len(decoder.buf)
    /\ yields[1].ret.k = "IOError"
    /\ yields[2].sent = Len(decoder.buf)

\* C10: a payload sent in two parts, with a failed next() in between, yields
\* the same value and leaves the same reference table as the payload sent in
\* one piece.
C10_ChunkingIndependent ==
    SentInTwoParts =>
        /\ last.ret.k = Whole(decoder.buf).st
        /\ SameValue(decoder.heap, last.ret.v,
                     Whole(decoder.buf).d.heap, Whole(decoder.buf).val, MaxItems + 1)
        /\ decoder.context.objects.length
              = Whole(decoder.buf).d.context.objects.length
        /\ \A i \in 0..(decoder.context.objects.length - 1) :
              SameValue(decoder.heap, Ctx_getObject(decoder.context, i),
                        Whole(decoder.buf).d.heap,
                        Ctx_getObject(Whole(decoder.buf).d.context, i), MaxItems + 1)

\* C11: a top-level readElement that returns has applied each function of
\* POST_DECODE_PROCESSORS exactly once, in list order, the first to the
\* outermost value read and each next one to the result before it, all with
\* context.extra; nothing is applied to nested elements, and nothing at all
\* when the read fails.
C11_ProcessorsOnceOnOutermost ==
    [][last'.op = "next" =>
        IF last'.raised = "ok"
        THEN /\ Len(decoder'.fin) = Len(decoder.fin) + Len(POST_DECODE_PROCESSORS)
             /\ \A i \in 1..Len(POST_DECODE_PROCESSORS) :
                   LET e == decoder'.fin[Len(decoder.fin) + i]
                   IN  /\ e.c = POST_DECODE_PROCESSORS[i]
                       /\ e.extra = decoder.context.extra
                       /\ e.payload =
                             IF i = 1
                             THEN D__readElement([decoder EXCEPT !.depth = 1]).val
                             ELSE Processed(POST_DECODE_PROCESSORS[i - 1],
                                            decoder'.fin[Len(decoder.fin) + i - 1].payload)
             /\ last'.ret.v =
                   Processed(POST_DECODE_PROCESSORS[Len(POST_DECODE_PROCESSORS)],
                             decoder'.fin[Len(decoder'.fin)].payload)
        ELSE decoder'.fin = decoder.fin]_vars

\* next() has returned an array with nested elements, decoded with a
\* non-empty context.extra, and the processors have run once each
C11_Witness ==
    /\ last.op = "next"
    /\ last.raised = "ok"
    /\ ~IsEmpty(decoder.context.extra)
    /\ Len(decoder.fin) = Len(POST_DECODE_PROCESSORS)
    /\ decoder.fin[1].payload.k = "obj"
    /\ Len(decoder.heap[decoder.fin[1].payload.v]) > 1

(***************************************************************************)
(* Properties of the class-alias cache.                                    *)
(***************************************************************************)
\* C20: getClassAlias of a class with no registered alias does not raise: it
\* makes a default alias with defer=True and caches it; a klass in the cache
\* gets the cached alias object back, with nothing made and nothing changed;
\* a cached alias stays until clear(); and a string with no registered alias
\* raises UnknownClassAlias and leaves the context as it was.
C20_DefaultAliasCached ==
    [][/\ last'.op = "getClassAlias" =>
            IF last'.arg \in DOMAIN context.class_aliases
            THEN /\ last'.ret.k = "alias"
                 /\ last'.ret.v = context.class_aliases[last'.arg]
                 /\ context' = context
                 /\ nAlias' = nAlias
            ELSE IF ~IsString(last'.arg) /\ ~Registered(last'.arg)
            THEN /\ last'.ret.k = "alias"
                 /\ last'.ret.v.defer
                 /\ last'.ret.v.klass = last'.arg
                 /\ nAlias' = nAlias + 1
                 /\ context'.class_aliases =
                       DictSet(context.class_aliases, last'.arg, last'.ret.v)
            ELSE IF IsString(last'.arg) /\ ~Registered(last'.arg)
            THEN /\ last'.ret.k = "UnknownClassAlias"
                 /\ context' = context
            ELSE TRUE
       /\ last'.op # "clear" =>
            \A klass \in DOMAIN context.class_aliases :
                /\ klass \in DOMAIN context'.class_aliases
                /\ context'.class_aliases[klass] = context.class_aliases[klass]]_vars

\* the second default alias of the class, made after a clear(), has just been
\* returned from the cache
C20_Witness ==
    /\ last.op = "getClassAlias"
    /\ last.arg = "KUnreg"
    /\ last.full
    /\ DOMAIN context.class_aliases = {"KUnreg"}
    /\ last.ret.k = "alias"
    /\ last.ret.v.serial = 2
    /\ nAlias = 2

(***************************************************************************)
(* Properties of the Encoder's iterator.                                   *)
(***************************************************************************)
PullOk(p) == p.st = "ok"

\* what the last next() did with the stream
StopIterationWhenEmpty ==
    last.op = "next" =>
        /\ last.st = "StopIteration" <=> last.pending = 0
        /\ last.st = "StopIteration" =>
              encoder.pos = last.pos0 /\ Len(encoder.buf) = last.len0

\* C12 (as claimed): the i-th next() that returns encodes the i-th value
\* sent, no value is encoded twice, and next() raises StopIteration exactly
\* when nothing is pending, writing nothing.
C12_FifoBySuccess ==
    /\ \A i \in 1..Len(SelectSeq(pulls, PullOk)) :
          /\ i <= Len(sends)
          /\ SelectSeq(pulls, PullOk)[i].element = sends[i]
    /\ Len(pulls) + Len(encoder.bucket) = Len(sends)
    /\ StopIterationWhenEmpty

\* C12 (amended): the i-th next() that finds a value pending, whether it then
\* returns or raises, takes the i-th value sent; the values not yet taken are
\* pending in the order sent; a next() that returns gives the bytes written
\* for the value it took; and next() raises StopIteration exactly when
\* nothing is pending, writing nothing.
C12_FifoByPull ==
    /\ Len(pulls) <= Len(sends)
    /\ \A i \in 1..Len(pulls) : pulls[i].element = sends[i]
    /\ encoder.bucket = SubSeq(sends, Len(pulls) + 1, Len(sends))
    /\ StopIterationWhenEmpty
    /\ (last.op = "next" /\ last.st = "ok") =>
          /\ last.arg = sends[Len(pulls)]
          /\ last.ret = SubSeq(encoder.buf, last.pos0 + 1, encoder.pos)
          /\ last.ret # <<>>

\* after a first next() that raised, the second one has encoded the second
\* value sent
C12_Witness ==
    /\ last.op = "next"
    /\ last.st = "ok"
    /\ Len(pulls) = 2
    /\ pulls[1].st = "EncodeError"
    /\ last.arg = sends[2]
    /\ last.arg # sends[1]

\* C13: when writeElement raises inside next(), the stream is left at the end
\* of what was written, the bytes written before the failure staying after
\* the ones that were there; the failed value is gone from the bucket and the
\* values sent after it are pending in their order.
C13_NothingRecovered ==
    [][(last'.op = "next" /\ last'.st \notin {"ok", "StopIteration"}) =>
        /\ encoder'.bucket = Tail(encoder.bucket)
        /\ encoder'.pos = Len(encoder'.buf)
        /\ encoder'.pos >= encoder.pos
        /\ SubSeq(encoder'.buf, 1, Len(encoder.buf)) = encoder.buf
        /\ (last'.arg.t = "list" /\ Ctx_getObjectReference(encoder.context, last'.arg) < 0) =>
              /\ encoder'.pos = encoder.pos + Len(last'.arg.items)
              /\ encoder'.buf[encoder.pos + 1] = Tok("writeList", Len(last'.arg.items))]_vars

\* next() has raised after the header and the first element of a list were
\* written, with another value still pending
C13_Witness ==
    /\ last.op = "next"
    /\ last.st = "EncodeError"
    /\ encoder.pos = last.pos0 + 2
    /\ Len(encoder.buf) = last.len0 + 2
    /\ Len(encoder.bucket) = 1
    /\ last.pending = 2

(***************************************************************************)
(* Properties of writeElement and TYPE_MAP.                                *)
(***************************************************************************)
\* whether an entry of TYPE_MAP matches data: instance-of for a class, a true
\* result for a callable
EntryMatches(entry, data) ==
    IF IsClass(entry.type_) THEN IsInstance(data, entry.type_)
    ELSE Callable(entry.type_) /\ PredicateResult(entry.type_, data)

NoEntryMatches(data) ==
    \A i \in 1..Len(type_map) : ~EntryMatches(type_map[i], data)

\* C14: writeElement of a module, method, function, class or time that no
\* entry of TYPE_MAP matches raises EncodeError, writes nothing and leaves
\* use_write_object and func_cache as they were.
C14_BadTypesRaise ==
    [][(/\ last'.op = "writeElement"
        /\ last'.arg \in BadInputs
        /\ NoEntryMatches(last'.arg)) =>
            /\ last'.st = "EncodeError"
            /\ encoder'.buf = encoder.buf
            /\ encoder'.pos = encoder.pos
            /\ encoder'.use_write_object = encoder.use_write_object
            /\ encoder'.func_cache = encoder.func_cache]_vars

\* C15: TYPE_MAP is never consulted for a value of a type handleBasicTypes
\* accepts and no adapter is ever called on one, whether an entry of TYPE_MAP
\* matches the value or not.
C15_BasicTypesBypassTypeMap ==
    /\ \A i \in 1..Len(encoder.consulted) :
          encoder.consulted[i].data.t \notin BasicTypes
    /\ \A i \in 1..Len(encoder.calls) :
          encoder.calls[i].data.t \notin BasicTypes
    /\ (last.op = "writeElement" /\ last.arg.t \in BasicTypes
            /\ last.arg.items = <<>>) =>
          /\ last.st = "ok"
          /\ encoder.pos = last.pos0 + 1

\* a value of a basic type that an entry of TYPE_MAP matches has been written
\* by its own writer
C15_Witness ==
    /\ last.op = "writeElement"
    /\ last.arg = Val("int", 1)
    /\ ~NoEntryMatches(last.arg)
    /\ last.st = "ok"
    /\ encoder.buf = <<Tok("writeLong", 1)>>

\* C16 (as claimed): an adapter is called only on a value that the date, XML
\* and object encodings do not accept.
C16_TypeMapLast ==
    \A i \in 1..Len(encoder.calls) :
        /\ encoder.calls[i].data.t \notin {"datetime", "date", "xml"}
        /\ E_checkBadTypes(encoder.calls[i].data) # "ok"

\* C16 (amended): TYPE_MAP comes after the checks of handleBasicTypes and
\* before the object encodings: a value of a basic type, or of a type in
\* use_write_object, gets no adapter; any other value for whose type an
\* adapter is cached, or that an entry of TYPE_MAP matches, goes to that
\* adapter first, without checkBadTypes and without being written as an
\* object.
C16_TypeMapBeforeObject ==
    [][last'.op = "writeElement" =>
        IF \/ last'.arg.t \in BasicTypes
           \/ \E i \in 1..Len(encoder.use_write_object) :
                 encoder.use_write_object[i] = last'.arg.t
        THEN \A i \in (Len(encoder.calls) + 1)..Len(encoder'.calls) :
                 encoder'.calls[i].data # last'.arg
        ELSE IF last'.arg.t \in DOMAIN encoder.func_cache \/ ~NoEntryMatches(last'.arg)
        THEN /\ Len(encoder'.calls) > Len(encoder.calls)
             /\ encoder'.calls[Len(encoder.calls) + 1].data = last'.arg
             /\ encoder'.use_write_object = encoder.use_write_object
             /\ last'.st = "ok"
        ELSE /\ encoder'.calls = encoder.calls
             /\ last'.st = "ok" =>
                   encoder'.use_write_object
                      = Append(encoder.use_write_object, last'.arg.t)]_vars

\* an instance of K, which writeObject would have taken, went to the adapter
C16_Witness ==
    /\ last.op = "writeElement"
    /\ last.arg = Val("K", 1)
    /\ E_checkBadTypes(last.arg) = "ok"
    /\ encoder.calls = <<[func |-> "adaptK", data |-> Val("K", 1)]>>
    /\ encoder.use_write_object = <<>>
    /\ encoder.buf = <<Tok("adaptK", 1)>>

\* C17: an adapter is called on a value only if the predicate of its entry
\* matches that value.
C17_AdapterOnlyOnMatch ==
    \A i \in 1..Len(encoder.calls) :
        \E j \in 1..Len(type_map) :
            /\ type_map[j].func = encoder.calls[i].func
            /\ EntryMatches(type_map[j], encoder.calls[i].data)

\* C18: a value that has an adapter gets one call of it; after a None the
\* encoder writes nothing more, after a replacement r it writes r with one
\* writeElement: the stream grows by what the adapter wrote and then the
\* encoding of r.
C18_AdapterCalledOnce ==
    [][(/\ last'.op = "writeElement"
        /\ Len(encoder'.calls) > Len(encoder.calls)
        /\ encoder'.calls[Len(encoder.calls) + 1].data = last'.arg) =>
            LET func == encoder'.calls[Len(encoder.calls) + 1].func
                a == Adapter(func, last'.arg)
            IN  /\ Len(encoder'.calls) = Len(encoder.calls) + 1
                /\ last'.st = "ok"
                /\ encoder'.buf = encoder.buf \o a.toks \o
                      (IF a.ret = None THEN <<>>
                       ELSE <<Tok("writeLong", a.ret.f)>>)
                /\ encoder'.pos = Len(encoder'.buf)]_vars

\* an adapter has returned a replacement and the encoder has written it
C18_Witness ==
    /\ last.op = "writeElement"
    /\ last.arg = Val("J", 1)
    /\ encoder.calls = <<[func |-> "replace", data |-> Val("J", 1)]>>
    /\ encoder.buf = <<Tok("writeLong", 0)>>

\* C19: a look-up in TYPE_MAP gives the adapter of the first entry that
\* matches, having evaluated the entries up to that one and none after it,
\* and gives None, having evaluated them all, when none matches.
C19_FirstMatchInOrder ==
    \A i \in 1..Len(encoder.consulted) :
        LET c == encoder.consulted[i]
        IN  IF NoEntryMatches(c.data)
            THEN c.func = "none" /\ c.evaluated = Len(type_map)
            ELSE /\ c.evaluated \in 1..Len(type_map)
                 /\ EntryMatches(type_map[c.evaluated], c.data)
                 /\ \A j \in 1..(c.evaluated - 1) : ~EntryMatches(type_map[j], c.data)
                 /\ c.func = type_map[c.evaluated].func

\* a value that two entries match got the adapter of the first, the second
\* not being looked at
C19_Witness ==
    /\ Len(encoder.consulted) = 1
    /\ encoder.consulted[1].data = Val("K", 1)
    /\ encoder.consulted[1].evaluated = 1
    /\ \E j \in 2..Len(type_map) : EntryMatches(type_map[j], Val("K", 1))
    /\ encoder.calls = <<[func |-> type_map[1].func, data |-> Val("K", 1)]>>

(***************************************************************************)
(* Properties of the backing array.                                        *)
(***************************************************************************)
\* the sizes the array can have: 64 doubled some number of times
RECURSIVE IsDoubled(_)
IsDoubled(size) ==
    IF size <= InitialSize THEN size = InitialSize
    ELSE size % 2 = 0 /\ IsDoubled(size \div 2)

C25_KeyedByValue ==
    /\ \A s \in Obj :
          /\ BS_getReferenceTo(objects, s) >= 0
                <=> \E o \in Stored(objects) : BytesValue(o) = BytesValue(s)
          /\ BS_getReferenceTo(objects, s) >= 0 =>
                /\ BS_getReferenceTo(objects, s) < objects.length
                /\ BytesValue(Slot(objects, BS_getReferenceTo(objects, s)).v)
                      = BytesValue(s)
    /\ \A s, t \in Obj :
          (BytesValue(s) # BytesValue(t) /\ BS_getReferenceTo(objects, s) >= 0)
              => BS_getReferenceTo(objects, s) # BS_getReferenceTo(objects, t)
    /\ last.op = "getReferenceTo" =>
          (last.ret.v >= 0
              <=> \E o \in Stored(objects) : BytesValue(o) = BytesValue(last.arg))

\* a string is looked up and found while an unequal string with the same
\* hash is in the collection too, appended after it
C25_Witness ==
    /\ last.op = "getReferenceTo"
    /\ last.ret.v >= 0
    /\ \E i \in (last.ret.v + 1)..(objects.length - 1) :
          /\ BytesValue(Slot(objects, i).v) # BytesValue(last.arg)
          /\ BytesHash(BytesValue(Slot(objects, i).v))
                = BytesHash(BytesValue(last.arg))

(***************************************************************************)
(* Properties of the DTD and entity flags.                                 *)
(***************************************************************************)
\* the context with its two flags set as a caller could have set them
WithFlags(ctx, fd, fe) == [ctx EXCEPT !.forbid_dtd = fd, !.forbid_entities = fe]

\* C21: DTDs and entity expansion are forbidden by default and stay so.
\* Context() has both flags True, they are True in every state reached from
\* it by clear, addObject and the cache operations, clear() leaves the flags
\* as it found them whatever they are, and a Codec built without the two
\* arguments sets both to True on its context.
C21_ForbiddenByDefault ==
    /\ Ctx_init(ForbidDefault, ForbidDefault).forbid_dtd
    /\ Ctx_init(ForbidDefault, ForbidDefault).forbid_entities
    /\ context.forbid_dtd
    /\ context.forbid_entities
    /\ \A fd, fe \in BOOLEAN :
          /\ Ctx_clear(WithFlags(context, fd, fe)).forbid_dtd = fd
          /\ Ctx_clear(WithFlags(context, fd, fe)).forbid_entities = fe
          /\ Codec_init(WithFlags(context, fd, fe),
                        ForbidDefault, ForbidDefault).forbid_dtd
          /\ Codec_init(WithFlags(context, fd, fe),
                        ForbidDefault, ForbidDefault).forbid_entities

\* an addObject, a clear(), another addObject and a cache operation have
\* been made on the context
C21_Witness ==
    /\ nCalls = 2
    /\ nApp = 1
    /\ last.op = "getStringForBytes"
    /\ last.ret.k = "str"
    /\ context.forbid_dtd
    /\ context.forbid_entities

(***************************************************************************)
(* Properties of the Decoder's error paths.                                *)
(***************************************************************************)
\* C22: when the read of a top-level element fails with IOError, raised at
\* whatever depth, the stream is left at the position where the marker of
\* that top-level element began; when it fails with another exception after
\* the marker was read, the stream is not taken back there.
C22_IOErrorRestoresStart ==
    last.op = "next" =>
        /\ last.raised = "IOError" =>
              /\ decoder.pos = last.pos0
              /\ last.pos0 < last.len0
        /\ (last.raised \notin {"ok", "IOError"} /\ last.pos0 < last.len0) =>
              decoder.pos > last.pos0

\* a read one level down ran out of bytes after an earlier element of the
\* array had been read in full
C22_Witness ==
    /\ last.op = "next"
    /\ last.raised = "IOError"
    /\ last.at = 2
    /\ Len(decoder.heap) >= 2
    /\ last.len0 > last.pos0 + 10
    /\ decoder.pos = last.pos0

\* the number of next() calls so far that returned a value
Returned == Cardinality({i \in 1..Len(yields) : yields[i].ret.k = "ok"})

\* C24: Decoder.depth counts the readElement calls in progress.  It is 0
\* whenever no readElement is in progress; a readElement entered at any
\* depth leaves depth as it found it, whether it returns or raises; and
\* every top-level read that returns has run finalise, the reads that
\* failed before it notwithstanding.
C24_DepthBalanced ==
    /\ decoder.depth = 0
    /\ \A n \in 0..MaxItems :
          D_readElement([decoder EXCEPT !.depth = n]).d.depth = n
    /\ Len(decoder.fin) = Len(POST_DECODE_PROCESSORS) * Returned

\* a first next() raised, and the next one returned a value that the
\* processors were applied to
C24_Witness ==
    /\ Len(yields) = 2
    /\ yields[1].ret.k \notin {"ok", "StopIteration"}
    /\ yields[2].ret.k = "ok"
    /\ last.op = "next"
    /\ Len(decoder.fin) = Len(POST_DECODE_PROCESSORS)
    /\ decoder.depth = 0

(***************************************************************************)
(* Properties of the string caches.                                        *)
(***************************************************************************)
\* C26: the two string caches are inverse to each other in every state:
\* unicodes[s] = u iff _strings[u] = s.  Hence getBytesForString of the
\* result of getStringForBytes(s) is s, getStringForBytes of the result of
\* getBytesForString(u) is u, both answered from the cache, and a repeated
\* call returns the cached entry and changes nothing.
C26_StringCachesInverse ==
    /\ \A s \in DOMAIN context.unicodes :
          /\ context.unicodes[s].k = "str"
          /\ DictGet(context.strings, context.unicodes[s].v)
                = [k |-> "bytes", v |-> s]
    /\ \A u \in DOMAIN context.strings :
          /\ context.strings[u].k = "bytes"
          /\ DictGet(context.unicodes, context.strings[u].v)
                = [k |-> "str", v |-> u]
    /\ \A s \in BytesInputs :
          LET r == Ctx_getStringForBytes(context, s)
          IN  r.ret.k = "str" =>
                /\ Ctx_getBytesForString(r.c, r.ret.v)
                      = [c |-> r.c, ret |-> [k |-> "bytes", v |-> s]]
                /\ Ctx_getStringForBytes(r.c, s) = [c |-> r.c, ret |-> r.ret]
                /\ r.ret = DictGet(r.c.unicodes, s)
    /\ \A u \in StringInputs :
          LET r == Ctx_getBytesForString(context, u)
          IN  /\ Ctx_getStringForBytes(r.c, r.ret.v)
                    = [c |-> r.c, ret |-> [k |-> "str", v |-> u]]
              /\ Ctx_getBytesForString(r.c, u) = [c |-> r.c, ret |-> r.ret]
              /\ r.ret = DictGet(r.c.strings, u)

\* getStringForBytes has been answered for the two-byte encoding of U+00E9
\* while both caches hold that pair and the pair of "A", and nothing else
C26_Witness ==
    /\ last.op = "getStringForBytes"
    /\ last.arg = <<195, 169>>
    /\ last.ret = [k |-> "str", v |-> <<233>>]
    /\ DOMAIN context.unicodes = {<<65>>, <<195, 169>>}
    /\ DOMAIN context.strings = {<<65>>, <<233>>}

(***************************************************************************)
(* Properties of the choice of writer.                                     *)
(***************************************************************************)
\* the encoder with no memory of the types it has written
Forgetful(e) == [e EXCEPT !.func_cache = <<>>, !.use_write_object = <<>>]

\* the writer writeElement hands element to: the first thing it writes
WriterChosen(e, tm, element) ==
    LET r == E_writeElement(e, tm, element)
    IN  IF r.e.pos > e.pos THEN r.e.buf[e.pos + 1].k ELSE r.st

\* C23: a value that no entry of TYPE_MAP matches, and for whose type no
\* adapter is cached, goes to the writer it would go to on an encoder that
\* has written nothing of its type before.
C23_WriterIndependentOfHistory ==
    [][(/\ last'.op = "writeElement"
        /\ NoEntryMatches(last'.arg)
        /\ last'.arg.t \notin DOMAIN encoder.func_cache) =>
            WriterChosen(encoder, type_map, last'.arg)
                = WriterChosen(Forgetful(encoder), type_map, last'.arg)]_vars

(***************************************************************************)
(* Properties of the bytes next() returns.                                 *)
(***************************************************************************)
\* what the next() calls that found a value have returned, in order
Returns == [i \in 1..Len(pulls) |-> pulls[i].bytes]

\* C28: a next() that returns gives exactly what writeElement wrote for the
\* value it took, the stream content from the position before the call to
\* the position after writeElement, and leaves the stream at the end of it;
\* when every value goes through send and next() and none fails, the
\* results of the next() calls, one after the other, are the stream.
C28_NextReturnsBytesWritten ==
    /\ [][(last'.op = "next" /\ last'.st = "ok") =>
            LET r == E_writeElement([encoder EXCEPT !.bucket = Tail(@)],
                                    type_map, Head(encoder.bucket))
            IN  /\ last'.ret = SubSeq(r.e.buf, encoder.pos + 1, r.e.pos)
                /\ encoder'.buf = r.e.buf
                /\ encoder'.pos = r.e.pos
                /\ encoder'.pos = encoder.pos + Len(last'.ret)]_vars
    /\ []((/\ nCalls = Len(sends)
           /\ \A i \in 1..Len(pulls) : pulls[i].st = "ok") =>
              /\ Concat(Returns) = encoder.buf
              /\ encoder.pos = Len(encoder.buf))

\* two values were sent and two next() calls have returned the bytes of one
\* each
C28_Witness ==
    /\ Len(sends) = 2
    /\ nCalls = 2
    /\ Len(pulls) = 2
    /\ last.op = "next"
    /\ pulls[1].st = "ok"
    /\ pulls[2].st = "ok"
    /\ pulls[1].bytes # <<>>
    /\ pulls[2].bytes # <<>>
    /\ pulls[1].bytes # pulls[2].bytes
    /\ encoder.buf = pulls[1].bytes \o pulls[2].bytes
    /\ encoder.pos = Len(encoder.buf)

====
